---- MODULE Spec2Model ----
(***************************************************************************)
(* Account / token lifecycle of the NewsHub backend (src/auth/account).    *)
(*                                                                         *)
(* The database tables are the state.  Django runs in autocommit mode (no  *)
(* handler opens transaction.atomic), so every ORM statement is one atomic *)
(* step and a request handler is a sequence of such steps; Workers are the *)
(* concurrent request handlers, req[w] holds a handler's position (pc),    *)
(* its request data, the objects it has loaded and its last response.      *)
(***************************************************************************)
EXTENDS Integers, Sequences, FiniteSets, TLC

\* ------------------------------------------------------------------ bounds
MaxUsers == 2
MaxTokens == 2
MaxTicks == 1
MaxArticles == 2
MaxViews == 1

\* ------------------------------------------------------- program constants
VerificationTTL == 24
ResetTTL == 2
MinPasswordLength == 8
AccessMaxAge == 300
RefreshMaxAge == 86400

\* ------------------------------------------------------------ input domains
Workers == {"w1", "w2"}
Emails == {"a@x.com", "A@X.COM", "b@x.com"}
Passwords == {"pass1234", "pass5678", "short"}
Confirmations == {"pass1234", "pass5678"}
RegisterPasswords == {"pass1234", "short"}
SuperuserEmails == {"b@x.com"}
TickSteps == {VerificationTTL}
TokenValues == 1..(MaxTokens + 1)

VARIABLES
    users,          \* MyUser table: sequence of rows, row index = primary key
    evTokens,       \* EmailVerificationToken table
    prTokens,       \* PasswordResetToken table
    now,            \* timezone.now(), in hours
    ticks,          \* number of clock advances so far (bounded)
    req,            \* per worker: the request being handled and its locals
    out,            \* the response being returned to a client, if any
    pwChangedBy,    \* history: per token value, password changes it caused
    verifyOk,       \* history: token values for which verify-email answered 200
    loginAttempts,  \* LoginAttempt table
    articles,       \* Article table: sequence of rows, row index = primary key
    likes,          \* Like table: set of rows
    bookmarks,      \* Bookmark table: set of rows
    newsReq,        \* per worker: the news request being handled and its locals
    newsOut         \* the response a news endpoint returns in this step, if any

accountVars == <<users, evTokens, prTokens, now, ticks, req, out, pwChangedBy,
                 verifyOk, loginAttempts>>
newsVars == <<articles, likes, bookmarks, newsReq, newsOut>>
vars == <<accountVars, newsVars>>

\* ------------------------------------------------------------ pure helpers
\* str.lower() on the e-mail strings of the model
Lower(e) ==
    CASE e = "A@X.COM" -> "a@x.com"
      [] e = "A@x.com" -> "a@x.com"
      [] OTHER -> e

\* BaseUserManager.normalize_email: lower-cases the domain part only
normalize_email(e) ==
    CASE e = "A@X.COM" -> "A@x.com"
      [] OTHER -> e

PasswordLength(p) ==
    CASE p = "pass1234" -> 8
      [] p = "pass5678" -> 8
      [] p = "short" -> 5
      [] OTHER -> 0

\* set_password: the stored value is a hash of the plaintext
make_password(p) == <<"hash", p>>

check_password(u, p) == u.password = make_password(p)

\* CharField(min_length=8) followed by validate_password
validate_password(p) == PasswordLength(p) >= MinPasswordLength

\* ---------------------------------------------------------------- queries
UserIds == 1..Len(users)

\* mutant: the lookup compares the email as typed
UsersIexact_exact(e) == {i \in UserIds : users[i].email = e}

\* MyUser.objects.filter(email__iexact=value)
UsersIexact(e) == {i \in UserIds : Lower(users[i].email) = Lower(e)}

\* mutant: the column has no unique index
UsersExact_unchecked(e) == {}

\* MyUser.objects.filter(email=value)
UsersExact(e) == {i \in UserIds : users[i].email = e}

\* mutant: the expiry instant itself still counts as valid
is_valid_inclusive(t) == ~t.is_used /\ now <= t.expires_at

\* token.is_valid() of both token models
is_valid(t) == ~t.is_used /\ now < t.expires_at

\* <Token>.objects.get(token=value): row index, 0 for DoesNotExist
GetToken(table, value) ==
    LET m == {i \in 1..Len(table) : table[i].token = value}
    IN IF m = {} THEN 0 ELSE CHOOSE i \in m : TRUE

\* mutant: the expiry is looked at before the used flag
validate_token_expiryFirst(table, value) ==
    LET i == GetToken(table, value)
    IN IF i = 0 THEN "invalid"
       ELSE IF ~is_valid(table[i])
            THEN IF now >= table[i].expires_at THEN "expired" ELSE "used"
            ELSE "ok"

\* validate_token of EmailVerificationSerializer / PasswordResetConfirmSerializer
validate_token(table, value) ==
    LET i == GetToken(table, value)
    IN IF i = 0 THEN "invalid"
       ELSE IF ~is_valid(table[i])
            THEN IF table[i].is_used THEN "used" ELSE "expired"
            ELSE "ok"

\* mutant: the old tokens are left as they are
InvalidateUnused_skipped(table, u) == table

\* <Token>.objects.filter(user=user, is_used=False).update(is_used=True)
InvalidateUnused(table, u) ==
    [i \in 1..Len(table) |->
        IF table[i].user = u /\ ~table[i].is_used
        THEN [table[i] EXCEPT !.is_used = TRUE]
        ELSE table[i]]

TokenCount == Len(evTokens) + Len(prTokens)

\* secrets.token_urlsafe(32): a value no stored token has
FreshToken == TokenCount + 1

NewToken(u, ttl) ==
    [user |-> u, token |-> FreshToken, expires_at |-> now + ttl, is_used |-> FALSE]

\* ------------------------------------------------------- requests, responses
NoCookies == {}

\* Response({...}, status=...) of the views, tagged with the endpoint and
\* the token value of the request it answers (0: the request carried none)
Response(op, status, message) ==
    [op |-> op, token |-> 0, status |-> status, message |-> message,
     cookies |-> NoCookies, mail |-> "none"]

NoResponse == Response("none", 0, "")

IdleReq ==
    [op |-> "none", pc |-> "done", email |-> "", token |-> 0, password |-> "",
     user |-> 0, tok |-> 0, pre |-> {}, loaded |-> <<>>]

NewReq(op) == [IdleReq EXCEPT !.op = op]

\* no response is on its way out: a returned response reaches its client
\* (Deliver) before the next statement of any handler is considered
Quiet == out = NoResponse

\* a request is handed to the first free worker
Idle(w) ==
    /\ Quiet
    /\ req[w].pc = "done"
    /\ w = "w2" => req["w1"].pc # "done"

\* worker w is at statement pc of the handler of endpoint op
At(w, op, pc) == Quiet /\ req[w].op = op /\ req[w].pc = pc

\* the handler of worker w returns: its locals are dropped, the response is sent
Finish(w, op, status, message) ==
    /\ req' = [req EXCEPT ![w] = IdleReq]
    /\ out' = Response(op, status, message)

\* the same for the endpoints whose request carries a token value
FinishToken(w, op, token, status, message) ==
    /\ req' = [req EXCEPT ![w] = IdleReq]
    /\ out' = [Response(op, status, message) EXCEPT !.token = token]

\* EmailService._send_email: email.send(fail_silently=False) inside
\* try/except Exception; a failure is logged and False is returned
send_email(delivered) == IF delivered THEN "sent" ELSE "failed"

\* the tail of a handler that sends a mail and then answers; the result of
\* the send is not looked at
FinishMail(w, op, token, delivered, status, message) ==
    /\ req' = [req EXCEPT ![w] = IdleReq]
    /\ out' = [Response(op, status, message) EXCEPT
                    !.token = token, !.mail = send_email(delivered)]

\* the handler of worker w moves on to its next statement
Continue(w, r) ==
    /\ req' = [req EXCEPT ![w] = r]
    /\ UNCHANGED out

\* rows that handlers already past validation are still going to insert
PendingUsers == Cardinality({w \in Workers : req[w].pc = "create_user"})

PendingTokens ==
    Cardinality({w \in Workers :
        req[w].pc \in {"create_user", "create_token", "invalidate"}})

RoomForUser == Len(users) + PendingUsers < MaxUsers
RoomForToken == TokenCount + PendingTokens < MaxTokens

\* -------------------------------------------------------------------- Init
\* ------------------------------------------------- news requests, responses
\* Response({...}, status=...) of the news views, tagged with the endpoint,
\* the requesting user and the article; fields a view does not return are 0/""
NewsResponse(op, status, u, a) ==
    [op |-> op, status |-> status, user |-> u, article |-> a, flag |-> FALSE,
     likes_count |-> 0, slug |-> "", views_count |-> 0]

NoNewsResponse == NewsResponse("none", 0, 0, 0)

\* the locals of a news handler: the requesting user, the article's primary
\* key, the model instance in memory, the Like/Bookmark primary key, created
IdleNewsReq ==
    [op |-> "none", pc |-> "done", user |-> 0, article |-> 0, row |-> <<>>,
     mark |-> 0, created |-> FALSE]

\* the news tables are empty and no news request is being handled
NoNews ==
    /\ articles = <<>>
    /\ likes = {}
    /\ bookmarks = {}
    /\ newsReq = [w \in Workers |-> IdleNewsReq]
    /\ newsOut = NoNewsResponse

Init ==
    /\ users = <<>>
    /\ evTokens = <<>>
    /\ prTokens = <<>>
    /\ now = 0
    /\ ticks = 0
    /\ req = [w \in Workers |-> IdleReq]
    /\ out = NoResponse
    /\ pwChangedBy = [t \in TokenValues |-> 0]
    /\ verifyOk = {}
    /\ loginAttempts = <<>>
    /\ NoNews

\* ----------------------------------------------------------------- clock
Tick ==
    /\ Quiet
    /\ ticks < MaxTicks
    /\ \E d \in TickSteps : now' = now + d
    /\ ticks' = ticks + 1
    /\ UNCHANGED <<newsVars, loginAttempts, users, evTokens, prTokens, req, out, pwChangedBy, verifyOk>>

\* the view returns its Response object: the client receives it
Deliver ==
    /\ ~Quiet
    /\ out' = NoResponse
    /\ UNCHANGED <<newsVars, loginAttempts, users, evTokens, prTokens, now, ticks, req, pwChangedBy, verifyOk>>

\* ------------------------------------------------- POST /auth/register/
\* UserRegistrationSerializer.validate_email / validate, then the 400 branch
RegisterError(email, password, password2) ==
    IF UsersIexact(email) # {} THEN "A user with this email already exists."
    ELSE IF PasswordLength(password) < MinPasswordLength
         THEN "Ensure this field has at least 8 characters."
    ELSE IF password # password2 THEN "Passwords do not match."
    ELSE IF ~validate_password(password) THEN "This password is too short."
    ELSE ""

RegisterRequest(w, email, password, password2) ==
    /\ Idle(w)
    /\  LET err == RegisterError(email, password, password2)
            r == [NewReq("register") EXCEPT !.email = Lower(email),
                                            !.password = password]
        IN IF err # ""
           THEN Finish(w, "register", 400, err)
           ELSE /\ RoomForUser
                /\ RoomForToken
                /\ Continue(w, [r EXCEPT !.pc = "create_user"])
    /\ UNCHANGED <<newsVars, loginAttempts, users, evTokens, prTokens, now, ticks, pwChangedBy, verifyOk>>

RegisterBegin(w) ==
    \E email \in Emails, password \in RegisterPasswords, password2 \in Confirmations :
        RegisterRequest(w, email, password, password2)

\* MyUserManager.create_user: INSERT, the unique index on email may reject it
RegisterCreateUser(w) ==
    /\ At(w, "register", "create_user")
    /\ LET email == normalize_email(req[w].email)
       IN IF UsersExact(email) # {}
          THEN /\ Finish(w, "register", 500,
                    "An error occurred during registration. Please try again.")
               /\ UNCHANGED users
          ELSE /\ users' = Append(users,
                    [email |-> email,
                     name |-> "name1",
                     password |-> make_password(req[w].password),
                     is_active |-> TRUE,
                     email_verified |-> FALSE,
                     is_superuser |-> FALSE])
               /\ Continue(w, [req[w] EXCEPT
                    !.pc = "create_token", !.user = Len(users) + 1])
    /\ UNCHANGED <<newsVars, loginAttempts, evTokens, prTokens, now, ticks, pwChangedBy, verifyOk>>

\* EmailVerificationToken.objects.create, send_verification_email, 201
RegisterCreateToken(w) ==
    /\ At(w, "register", "create_token")
    /\ evTokens' = Append(evTokens, NewToken(req[w].user, VerificationTTL))
    /\ \E delivered \in BOOLEAN :
            FinishMail(w, "register", 0, delivered, 201,
                "Registration successful! Please check your email to verify your account.")
    /\ UNCHANGED <<newsVars, loginAttempts, users, prTokens, now, ticks, pwChangedBy, verifyOk>>

\* --------------------------------------------- POST /auth/verify-email/
\* EmailVerificationSerializer.validate_token; the 400 branch of the view
TokenErrorMessage(kind, err) ==
    CASE err = "invalid" -> "Invalid " \o kind \o " token."
      [] err = "used" -> "This " \o kind \o " link has already been used."
      [] err = "expired" ->
            "This " \o kind \o " link has expired. Please request a new one."
      [] OTHER -> ""

VerifyRequest(w, value) ==
    /\ Idle(w)
    /\  LET err == validate_token(evTokens, value)
            i == GetToken(evTokens, value)
            r == [NewReq("verify_email") EXCEPT !.token = value]
        IN IF err # "ok"
           THEN FinishToken(w, "verify_email", value, 400,
                    TokenErrorMessage("verification", err))
           ELSE Continue(w, [r EXCEPT
                    !.pc = "save_user", !.tok = i, !.user = evTokens[i].user])
    /\ UNCHANGED <<newsVars, loginAttempts, users, evTokens, prTokens, now, ticks, pwChangedBy, verifyOk>>

VerifyBegin(w) == \E value \in TokenValues : VerifyRequest(w, value)

\* EmailVerificationSerializer.save: user.save(update_fields=['email_verified'])
VerifySaveUser(w) ==
    /\ At(w, "verify_email", "save_user")
    /\ users' = [users EXCEPT ![req[w].user].email_verified = TRUE]
    /\ Continue(w, [req[w] EXCEPT !.pc = "mark_used"])
    /\ UNCHANGED <<newsVars, loginAttempts, evTokens, prTokens, now, ticks, pwChangedBy, verifyOk>>

\* mutant: the flag is set on the object but never saved
make_as_used_unsaved(table, i) == table

\* mutant: the flag is flipped instead of set
make_as_used_flipped(table, i) == [table EXCEPT ![i].is_used = ~@]

\* EmailVerificationToken.make_as_used
make_as_used(table, i) == [table EXCEPT ![i].is_used = TRUE]

\* token_obj.make_as_used(), send_welcome_email, 200
VerifyMarkUsed(w) ==
    /\ At(w, "verify_email", "mark_used")
    /\ evTokens' = make_as_used(evTokens, req[w].tok)
    /\ verifyOk' = verifyOk \cup {req[w].token}
    /\ \E delivered \in BOOLEAN :
            FinishMail(w, "verify_email", req[w].token, delivered, 200,
                "Email verified successfully! You can now log in.")
    /\ UNCHANGED <<newsVars, loginAttempts, users, prTokens, now, ticks, pwChangedBy>>

\* --------------------------------------- POST /auth/resend-verification/
\* mutant: get(email=value), the email compared as typed
GetUserIexact_exact(e) ==
    LET m == {i \in UserIds : users[i].email = e}
    IN IF m = {} THEN <<"DoesNotExist", 0>>
       ELSE <<"ok", CHOOSE i \in m : TRUE>>

\* MyUser.objects.get(email__iexact=value): <<outcome, row>>
GetUserIexact(e) ==
    LET m == UsersIexact(e)
    IN IF m = {} THEN <<"DoesNotExist", 0>>
       ELSE IF Cardinality(m) > 1 THEN <<"MultipleObjectsReturned", 0>>
       ELSE <<"ok", CHOOSE i \in m : TRUE>>

UnusedTokens(table, u) ==
    {i \in 1..Len(table) : table[i].user = u /\ ~table[i].is_used}

\* ResendVerificationSerializer.validate_email and the view's 400 / 500 branches
ResendRequest(w, email) ==
    /\ Idle(w)
    /\  LET g == GetUserIexact(email)
            r == NewReq("resend")
        IN IF g[1] = "DoesNotExist"
           THEN Finish(w, "resend", 400,
                    "No account found with this email address.")
           ELSE IF g[1] = "MultipleObjectsReturned"
           THEN Finish(w, "resend", 500, "An error occurred. Please try again.")
           ELSE IF users[g[2]].email_verified
           THEN Finish(w, "resend", 400, "This email is already verified.")
           ELSE /\ RoomForToken
                /\ Continue(w, [r EXCEPT
                        !.pc = "invalidate", !.user = g[2],
                        !.pre = UnusedTokens(evTokens, g[2])])
    /\ UNCHANGED <<newsVars, loginAttempts, users, evTokens, prTokens, now, ticks, pwChangedBy, verifyOk>>

ResendBegin(w) == \E email \in Emails : ResendRequest(w, email)

\* ResendVerificationSerializer.save: the filter(...).update(is_used=True)
ResendInvalidate(w) ==
    /\ At(w, "resend", "invalidate")
    /\ evTokens' = InvalidateUnused(evTokens, req[w].user)
    /\ Continue(w, [req[w] EXCEPT !.pc = "create_token"])
    /\ UNCHANGED <<newsVars, loginAttempts, users, prTokens, now, ticks, pwChangedBy, verifyOk>>

\* ResendVerificationSerializer.save: create, send_verification_email, 200
ResendCreateToken(w) ==
    /\ At(w, "resend", "create_token")
    /\ evTokens' = Append(evTokens, NewToken(req[w].user, VerificationTTL))
    /\ \E delivered \in BOOLEAN :
            FinishMail(w, "resend", 0, delivered, 200,
                "Verification email sent! Please check your inbox.")
    /\ UNCHANGED <<newsVars, loginAttempts, users, prTokens, now, ticks, pwChangedBy, verifyOk>>

\* -------------------------------------------------- POST /auth/login/
\* django.contrib.auth.authenticate as TokenObtainPairSerializer calls it:
\* exact lookup on USERNAME_FIELD, check_password, is_active; 0 for None
authenticate(email, password) ==
    LET m == UsersExact(email)
    IN IF m = {} THEN 0
       ELSE LET u == CHOOSE i \in m : TRUE
            IN IF check_password(users[u], password) /\ users[u].is_active
               THEN u ELSE 0

\* mutant: the cookies are readable by scripts
Cookie_scriptReadable(name, u, max_age) ==
    [name |-> name, user |-> u, httponly |-> FALSE, samesite |-> "Lax",
     max_age |-> max_age]

\* response.set_cookie(name, <credential of user>, httponly, samesite, max_age)
Cookie(name, u, max_age) ==
    [name |-> name, user |-> u, httponly |-> TRUE, samesite |-> "Lax",
     max_age |-> max_age]

\* CustomTokenObtainPairView.post never writes the LoginAttempt table: the
\* model class is imported by views.py and registered in admin.py, and no
\* code creates a row.
\* CustomTokenObtainPairView.post: the serializer is the one the base view
\* provides (it exposes .user and validated_data['access'/'refresh']);
\* UserLoginSerializer is imported by views.py but never instantiated
\* mutant: an unknown email gets its own message
LoginResponse_unknownEmail(email, password) ==
    LET u == authenticate(email, password)
    IN IF UsersExact(email) = {}
       THEN Response("login", 401, "No account found with this email address.")
       ELSE IF u = 0
       THEN Response("login", 401, "Invalid email or password.")
       ELSE [Response("login", 200, "Login successful!") EXCEPT
                !.cookies = {Cookie("access_token", u, AccessMaxAge),
                             Cookie("refresh_token", u, RefreshMaxAge)}]

LoginResponse(email, password) ==
    LET u == authenticate(email, password)
    IN IF u = 0
       THEN Response("login", 401, "Invalid email or password.")
       ELSE [Response("login", 200, "Login successful!") EXCEPT
                !.cookies = {Cookie("access_token", u, AccessMaxAge),
                             Cookie("refresh_token", u, RefreshMaxAge)}]

LoginRequest(w, email, password) ==
    /\ Idle(w)
    /\ out' = LoginResponse(email, password)
    /\ UNCHANGED <<newsVars, loginAttempts, users, evTokens, prTokens, now, ticks, req, pwChangedBy, verifyOk>>

Login(w) == \E email \in Emails, password \in Passwords : LoginRequest(w, email, password)

\* ------------------------------------------- POST /auth/password-reset/
\* PasswordResetRequestSerializer.validate_email and the view's branches
PasswordResetRequest(w, email) ==
    /\ Idle(w)
    /\ LET g == GetUserIexact(email)
           r == NewReq("reset_request")
       IN IF g[1] = "DoesNotExist"
          THEN Finish(w, "reset_request", 200,
                "If an account exists with this email, you will receive a password reset link.")
          ELSE IF g[1] = "MultipleObjectsReturned"
          THEN Finish(w, "reset_request", 500, "An error occurred. Please try again.")
          ELSE IF ~users[g[2]].email_verified
          THEN Finish(w, "reset_request", 400, "Please verify your email first.")
          ELSE /\ RoomForToken
               /\ Continue(w, [r EXCEPT
                       !.pc = "invalidate", !.user = g[2],
                       !.pre = UnusedTokens(prTokens, g[2])])
    /\ UNCHANGED <<newsVars, loginAttempts, users, evTokens, prTokens, now, ticks, pwChangedBy, verifyOk>>

ResetRequestBegin(w) == \E email \in Emails : PasswordResetRequest(w, email)

\* PasswordResetRequestSerializer.save: the filter(...).update(is_used=True)
ResetRequestInvalidate(w) ==
    /\ At(w, "reset_request", "invalidate")
    /\ prTokens' = InvalidateUnused(prTokens, req[w].user)
    /\ Continue(w, [req[w] EXCEPT !.pc = "create_token"])
    /\ UNCHANGED <<newsVars, loginAttempts, users, evTokens, now, ticks, pwChangedBy, verifyOk>>

\* PasswordResetRequestSerializer.save: create, send_password_reset_email, 200
ResetRequestCreateToken(w) ==
    /\ At(w, "reset_request", "create_token")
    /\ prTokens' = Append(prTokens, NewToken(req[w].user, ResetTTL))
    /\ \E delivered \in BOOLEAN :
            FinishMail(w, "reset_request", 0, delivered, 200,
                "If an account exists with this email, you will receive a password reset link.")
    /\ UNCHANGED <<newsVars, loginAttempts, users, evTokens, now, ticks, pwChangedBy, verifyOk>>

\* ----------------------------------- POST /auth/password-reset/confirm/
\* field validation (validate_token, min_length), then validate()
ResetConfirmError(value, password, password2) ==
    LET err == validate_token(prTokens, value)
    IN IF err # "ok" THEN TokenErrorMessage("reset", err)
       ELSE IF PasswordLength(password) < MinPasswordLength
            THEN "Ensure this field has at least 8 characters."
       ELSE IF password # password2 THEN "Passwords do not match."
       ELSE IF ~validate_password(password) THEN "This password is too short."
       ELSE ""

PasswordResetConfirm(w, value, password, password2) ==
    /\ Idle(w)
    /\ LET err == ResetConfirmError(value, password, password2)
           i == GetToken(prTokens, value)
           r == [NewReq("reset_confirm") EXCEPT !.token = value,
                                                 !.password = password]
       IN IF err # ""
          THEN FinishToken(w, "reset_confirm", value, 400, err)
          ELSE Continue(w, [r EXCEPT
                    !.pc = "set_password", !.tok = i, !.user = prTokens[i].user])
    /\ UNCHANGED <<newsVars, loginAttempts, users, evTokens, prTokens, now, ticks, pwChangedBy, verifyOk>>

ResetConfirmBegin(w) ==
    \E value \in TokenValues, password \in Passwords, password2 \in Confirmations :
        PasswordResetConfirm(w, value, password, password2)

\* the methods class PasswordResetToken defines
PasswordResetTokenMethods == {"is_valid", "make_as_used"}

\* PasswordResetConfirmSerializer.save: user.set_password, user.save, then
\* token_obj.mark_as_used(), a method the model does not define (it defines
\* make_as_used): AttributeError, caught by the view's except -> 500.  The
\* token row and its siblings are never written.
ResetConfirmSetPassword(w) ==
    /\ At(w, "reset_confirm", "set_password")
    /\ "mark_as_used" \notin PasswordResetTokenMethods
    /\ users' = [users EXCEPT ![req[w].user].password = make_password(req[w].password)]
    /\ pwChangedBy' = [pwChangedBy EXCEPT ![req[w].token] =
            IF users'[req[w].user].password # users[req[w].user].password /\ @ < 2
            THEN @ + 1 ELSE @]
    /\ FinishToken(w, "reset_confirm", req[w].token, 500,
            "An error occurred. Please try again.")
    /\ UNCHANGED <<newsVars, loginAttempts, evTokens, prTokens, now, ticks, verifyOk>>

\* ------------------------------------------------------------ credentials
\* The signed credentials are held by the clients only; a request presents
\* one in a cookie.  A credential names its type, its user and its expiry.
Hours(seconds) == (seconds + 3599) \div 3600

\* SIMPLE_JWT lifetimes: 5 minutes (less than one step of the clock) and
\* 24 hours, the values the cookies' max_age repeat
AccessLifetime == Hours(AccessMaxAge)
RefreshLifetime == Hours(RefreshMaxAge)

Lifetime(kind) == IF kind = "access" THEN AccessLifetime ELSE RefreshLifetime

Credential(kind, u, exp) == [kind |-> kind, user |-> u, exp |-> exp]

\* request.COOKIES.get(name) is None
NoCookie == Credential("none", 0, 0)

\* a cookie value that is no signed credential
Malformed == Credential("malformed", 0, 0)

\* the instants the clock has shown so far
PastTimes == {k * VerificationTTL : k \in 0..ticks}

\* what login and refresh can have handed out by now
IssuedCredentials(kind) ==
    {Credential(kind, u, iat + Lifetime(kind)) : u \in UserIds, iat \in PastTimes}

\* mutant: a credential is checked against a server-side record of the
\* password it was issued under
ValidCredential_revocable(c, kind) ==
    /\ c.kind = kind
    /\ now < c.exp
    /\ c.user \in UserIds
    /\ users[c.user].password = make_password("pass1234")

\* Token.verify of simplejwt: signature, token_type claim, exp claim
ValidCredential(c, kind) == c.kind = kind /\ now < c.exp

\* response.delete_cookie(name): an emptied cookie that expires at once
DeletedCookie(name) ==
    [name |-> name, user |-> 0, httponly |-> FALSE, samesite |-> "",
     max_age |-> 0]

ClearedCookies == {DeletedCookie("access_token"), DeletedCookie("refresh_token")}

\* ------------------------------------------ POST /auth/token/refresh/
\* mutant: the missing cookie is answered without clearing, and so is
\* every other failure
RefreshResponse_notCleared(c) ==
    IF c = NoCookie
    THEN Response("refresh", 401, "No refresh token provided.")
    ELSE IF ~ValidCredential(c, "refresh")
    THEN Response("refresh", 401, "Session expired. Please log in again.")
    ELSE [Response("refresh", 200, "Token refreshed successfully.") EXCEPT
            !.cookies = {Cookie("access_token", c.user, AccessMaxAge)}]

\* mutant: the refresh credential is replaced on every use
RefreshResponse_rotating(c) ==
    IF c = NoCookie
    THEN Response("refresh", 401, "No refresh token provided.")
    ELSE IF ~ValidCredential(c, "refresh")
    THEN [Response("refresh", 401, "Session expired. Please log in again.")
            EXCEPT !.cookies = ClearedCookies]
    ELSE [Response("refresh", 200, "Token refreshed successfully.") EXCEPT
            !.cookies = {Cookie("access_token", c.user, AccessMaxAge),
                         Cookie("refresh_token", c.user, RefreshMaxAge)}]

\* CustomRefreshTokenView.post
RefreshResponse(c) ==
    IF c = NoCookie
    THEN Response("refresh", 401, "No refresh token provided.")
    ELSE IF ~ValidCredential(c, "refresh")
    THEN [Response("refresh", 401, "Session expired. Please log in again.")
            EXCEPT !.cookies = ClearedCookies]
    ELSE [Response("refresh", 200, "Token refreshed successfully.") EXCEPT
            !.cookies = {Cookie("access_token", c.user, AccessMaxAge)}]

RefreshRequest(w, c) ==
    /\ Idle(w)
    /\ out' = RefreshResponse(c)
    /\ UNCHANGED <<newsVars, loginAttempts, users, evTokens, prTokens, now, ticks, req, pwChangedBy, verifyOk>>

Refresh(w) ==
    \E c \in {NoCookie, Malformed} \cup IssuedCredentials("refresh")
                \cup IssuedCredentials("access") :
        RefreshRequest(w, c)

\* ------------------------------------------------- POST /auth/logout/
\* LogoutView.post
Logout(w) ==
    /\ Idle(w)
    /\ out' = [Response("logout", 200, "Logged out successfully.") EXCEPT
                !.cookies = ClearedCookies]
    /\ UNCHANGED <<newsVars, loginAttempts, users, evTokens, prTokens, now, ticks, req, pwChangedBy, verifyOk>>

\* ---------------------------------------- POST /auth/change-password/
\* the outcomes of CookieJWTAuthentication.authenticate: None, (user, token),
\* or a raised AuthenticationFailed
Anonymous == [user |-> 0, error |-> ""]
Authenticated(u) == [user |-> u, error |-> ""]
AuthenticationFailed(message) == [user |-> 0, error |-> message]

\* mutant: the verification status is looked at by login only
CookieJWTAuthentication_loginOnly(c) ==
    IF c = NoCookie THEN Anonymous
    ELSE IF ~ValidCredential(c, "access")
    THEN AuthenticationFailed("Given token not valid for any token type")
    ELSE IF c.user \notin UserIds THEN AuthenticationFailed("User not found")
    ELSE IF ~users[c.user].is_active
    THEN AuthenticationFailed("User account is disabled.")
    ELSE Authenticated(c.user)

\* CookieJWTAuthentication.authenticate: the access_token cookie,
\* get_validated_token, get_user, is_active, email_verified or is_superuser
CookieJWTAuthentication(c) ==
    IF c = NoCookie THEN Anonymous
    ELSE IF ~ValidCredential(c, "access")
    THEN AuthenticationFailed("Given token not valid for any token type")
    ELSE IF c.user \notin UserIds THEN AuthenticationFailed("User not found")
    ELSE IF ~users[c.user].is_active
    THEN AuthenticationFailed("User account is disabled.")
    ELSE IF ~users[c.user].email_verified /\ ~users[c.user].is_superuser
    THEN AuthenticationFailed("Email not verified.")
    ELSE Authenticated(c.user)

\* CookieJWTAuthentication.authenticate followed by IsAuthenticated:
\* <<user, "">> or <<0, the 401 message>>
CookieAuthenticate(c) ==
    LET a == CookieJWTAuthentication(c)
    IN IF a = Anonymous
       THEN <<0, "Authentication credentials were not provided.">>
       ELSE <<a.user, a.error>>

\* mutant: the old password is not compared
ChangePasswordError_unchecked(u, old_password, password, password2) ==
    IF PasswordLength(password) < MinPasswordLength
    THEN "Ensure this field has at least 8 characters."
    ELSE IF password # password2 THEN "Passwords do not match."
    ELSE IF ~validate_password(password) THEN "This password is too short."
    ELSE ""

\* ChangePasswordSerializer: validate_old_password, min_length, validate
ChangePasswordError(u, old_password, password, password2) ==
    IF ~check_password(users[u], old_password)
    THEN "Current password is incorrect."
    ELSE IF PasswordLength(password) < MinPasswordLength
    THEN "Ensure this field has at least 8 characters."
    ELSE IF password # password2 THEN "Passwords do not match."
    ELSE IF ~validate_password(password) THEN "This password is too short."
    ELSE ""

ChangePasswordRequest(w, c, old_password, password, password2) ==
    /\ Idle(w)
    /\ LET a == CookieAuthenticate(c)
           r == [NewReq("change_password") EXCEPT !.password = password]
       IN IF a[1] = 0
          THEN Finish(w, "change_password", 401, a[2])
          ELSE LET err == ChangePasswordError(a[1], old_password, password, password2)
               IN IF err # ""
                  THEN Finish(w, "change_password", 400, err)
                  ELSE Continue(w, [r EXCEPT !.pc = "save", !.user = a[1]])
    /\ UNCHANGED <<newsVars, loginAttempts, users, evTokens, prTokens, now, ticks, pwChangedBy, verifyOk>>

ChangePasswordBegin(w) ==
    \E c \in {NoCookie, Malformed} \cup IssuedCredentials("access") :
        IF CookieAuthenticate(c)[1] = 0
        THEN ChangePasswordRequest(w, c, "pass1234", "pass1234", "pass1234")
        ELSE \E old_password \in Confirmations, password \in Passwords,
                password2 \in Confirmations :
                ChangePasswordRequest(w, c, old_password, password, password2)

\* ChangePasswordSerializer.save: set_password, save(update_fields=['password']);
\* then send_password_changed_email and the 200
ChangePasswordSave(w) ==
    /\ At(w, "change_password", "save")
    /\ users' = [users EXCEPT ![req[w].user].password = make_password(req[w].password)]
    /\ \E delivered \in BOOLEAN :
            FinishMail(w, "change_password", 0, delivered, 200,
                "Password changed successfully!")
    /\ UNCHANGED <<newsVars, loginAttempts, evTokens, prTokens, now, ticks, pwChangedBy, verifyOk>>

\* ------------------------------------------------ PATCH /auth/profile/
\* the request bodies: a field is absent ("") or carries a value
PatchBodies ==
    [name : {"", "name2"}, email_verified : {"", "true", "false"}]

\* mutant: email_verified is not among the read-only fields
UserProfileSerializer_verifiedWritable(body) == body

\* UserProfileSerializer.validated_data: the read_only_fields of the body
\* are dropped
UserProfileSerializer(body) == [body EXCEPT !.email_verified = ""]

\* UserProfileView.patch: request.user is the row the authentication loaded
ProfilePatchRequest(w, c, body) ==
    /\ Idle(w)
    /\ LET a == CookieAuthenticate(c)
           v == UserProfileSerializer(body)
           row == users[a[1]]
           r == NewReq("profile_patch")
       IN IF a[1] = 0
          THEN Finish(w, "profile_patch", 401, a[2])
          ELSE Continue(w, [r EXCEPT
                !.pc = "save_profile", !.user = a[1],
                !.loaded = <<[row EXCEPT
                    !.name = IF v.name = "" THEN @ ELSE v.name,
                    !.email_verified =
                        IF v.email_verified = "" THEN @
                        ELSE v.email_verified = "true"]>>])
    /\ UNCHANGED <<newsVars, loginAttempts, users, evTokens, prTokens, now, ticks, pwChangedBy, verifyOk>>

ProfilePatchBegin(w) ==
    \E c \in {NoCookie} \cup IssuedCredentials("access") :
        IF CookieAuthenticate(c)[1] = 0
        THEN ProfilePatchRequest(w, c, [name |-> "", email_verified |-> ""])
        ELSE \E body \in PatchBodies : ProfilePatchRequest(w, c, body)

\* ModelSerializer.update: setattr for the validated fields, then
\* instance.save() with no update_fields: every column is written from the
\* loaded object
ProfilePatchSave(w) ==
    /\ At(w, "profile_patch", "save_profile")
    /\ users' = [users EXCEPT ![req[w].user] = req[w].loaded[1]]
    /\ Finish(w, "profile_patch", 200, "Profile updated successfully!")
    /\ UNCHANGED <<newsVars, loginAttempts, evTokens, prTokens, now, ticks, pwChangedBy, verifyOk>>

\* ------------------------------------------------ manage.py createsuperuser
\* run at deployment, before the first account is registered
\* MyUserManager.create_superuser -> create_user with is_superuser and
\* email_verified defaulting to True; the unique index rejects an equal email
CreateSuperuser ==
    /\ Quiet
    /\ users = <<>>
    /\ \A w \in Workers : req[w].pc = "done"
    /\ \E email \in SuperuserEmails, password \in RegisterPasswords :
        /\ validate_password(password)
        /\ UsersExact(normalize_email(email)) = {}
        /\ users' = Append(users,
                [email |-> normalize_email(email),
                 name |-> "name1",
                 password |-> make_password(password),
                 is_active |-> TRUE,
                 email_verified |-> TRUE,
                 is_superuser |-> TRUE])
    /\ UNCHANGED <<newsVars, loginAttempts, evTokens, prTokens, now, ticks, req, out, pwChangedBy, verifyOk>>

Next ==
    \/ Tick
    \/ Deliver
    \/ CreateSuperuser
    \/ \E w \in Workers : RegisterBegin(w)
    \/ \E w \in Workers : RegisterCreateUser(w)
    \/ \E w \in Workers : RegisterCreateToken(w)
    \/ \E w \in Workers : VerifyBegin(w)
    \/ \E w \in Workers : VerifySaveUser(w)
    \/ \E w \in Workers : VerifyMarkUsed(w)
    \/ \E w \in Workers : ResendBegin(w)
    \/ \E w \in Workers : ResendInvalidate(w)
    \/ \E w \in Workers : ResendCreateToken(w)
    \/ \E w \in Workers : Login(w)
    \/ \E w \in Workers : ResetRequestBegin(w)
    \/ \E w \in Workers : ResetRequestInvalidate(w)
    \/ \E w \in Workers : ResetRequestCreateToken(w)
    \/ \E w \in Workers : ResetConfirmBegin(w)
    \/ \E w \in Workers : ResetConfirmSetPassword(w)

Spec == Init /\ [][Next]_vars

\* ------------------------------------------------------------ sessions
\* The session endpoints, run against a database that already holds
\* accounts: the superuser made at deployment and one account registered at
\* hour 0 whose verification token has been redeemed, or not yet; a
\* password reset has just been requested for one of the verified accounts.
SessionInit ==
    /\ \E verified \in BOOLEAN, active \in BOOLEAN :
        /\ users = <<[email |-> "b@x.com",
                      name |-> "name1",
                      password |-> make_password("pass1234"),
                      is_active |-> TRUE,
                      email_verified |-> TRUE,
                      is_superuser |-> TRUE],
                     [email |-> "a@x.com",
                      name |-> "name1",
                      password |-> make_password("pass1234"),
                      is_active |-> active,
                      email_verified |-> verified,
                      is_superuser |-> FALSE]>>
        /\ evTokens = <<[user |-> 2, token |-> 1, expires_at |-> VerificationTTL,
                         is_used |-> verified]>>
        /\ verifyOk = IF verified THEN {1} ELSE {}
    /\ \E u \in UserIds :
        /\ users[u].email_verified
        /\ prTokens = <<[user |-> u, token |-> 2, expires_at |-> ResetTTL,
                         is_used |-> FALSE]>>
    /\ now = 0
    /\ ticks = 0
    /\ req = [w \in Workers |-> IdleReq]
    /\ out = NoResponse
    /\ pwChangedBy = [t \in TokenValues |-> 0]
    /\ loginAttempts = <<>>
    /\ NoNews

SessionNext ==
    \/ Tick
    \/ Deliver
    \/ \E w \in Workers : Login(w)
    \/ \E w \in Workers : Refresh(w)
    \/ \E w \in Workers : Logout(w)
    \/ \E w \in Workers : ChangePasswordBegin(w)
    \/ \E w \in Workers : ChangePasswordSave(w)
    \/ \E w \in Workers : ProfilePatchBegin(w)
    \/ \E w \in Workers : ProfilePatchSave(w)
    \/ \E w \in Workers : VerifyBegin(w)
    \/ \E w \in Workers : VerifySaveUser(w)
    \/ \E w \in Workers : VerifyMarkUsed(w)
    \/ \E w \in Workers : ResetConfirmBegin(w)
    \/ \E w \in Workers : ResetConfirmSetPassword(w)

SessionSpec == SessionInit /\ [][SessionNext]_vars

\* ================================================================ news app
\* the news endpoints run against a database with a verified superuser and
\* a second account, verified or not
NewsAccounts(verified) ==
    /\ users = <<[email |-> "b@x.com",
                  name |-> "name1",
                  password |-> make_password("pass1234"),
                  is_active |-> TRUE,
                  email_verified |-> TRUE,
                  is_superuser |-> TRUE],
                 [email |-> "a@x.com",
                  name |-> "name1",
                  password |-> make_password("pass1234"),
                  is_active |-> TRUE,
                  email_verified |-> verified,
                  is_superuser |-> FALSE]>>
    /\ evTokens = <<>>
    /\ prTokens = <<>>
    /\ now = 0
    /\ ticks = 0
    /\ req = [w \in Workers |-> IdleReq]
    /\ out = NoResponse
    /\ pwChangedBy = [t \in TokenValues |-> 0]
    /\ verifyOk = {}
    /\ loginAttempts = <<>>

\* permission_classes = [IsAuthenticated]: the users a request can come from
AuthenticatedUsers ==
    {CookieAuthenticate(c)[1] : c \in IssuedCredentials("access")} \ {0}

\* a news request is handed to the first free worker
NewsIdle(w) ==
    /\ newsReq[w].pc = "done"
    /\ w = "w2" => newsReq["w1"].pc # "done"

NewsAt(w, op, pc) == newsReq[w].op = op /\ newsReq[w].pc = pc

\* the handler of worker w returns response r
NewsFinish(w, r) ==
    /\ newsReq' = [newsReq EXCEPT ![w] = IdleNewsReq]
    /\ newsOut' = r

\* the handler of worker w goes on with locals r
NewsContinue(w, r) ==
    /\ newsReq' = [newsReq EXCEPT ![w] = r]
    /\ newsOut' = NoNewsResponse

\* ------------------------------------------------------------ Article.save
Titles == {"Hello World", "Hello World 1"}
UpdateTitles == {"hello world!"}
ShortTitles == {"Hi all"}
MissingSlugs == {"missing"}

\* django.utils.text.slugify on the titles of the model
slugify(title) ==
    CASE title = "Hello World" -> "hello-world"
      [] title = "hello world!" -> "hello-world"
      [] title = "Hello World 1" -> "hello-world-1"
      [] title = "Hi all" -> "hi-all"

ArticleIds == 1..Len(articles)

\* Article.objects.filter(slug=slug).exists()
SlugExists(slug) == \E a \in ArticleIds : articles[a].slug = slug

\* slug = base_slug, then f"{base_slug}-{counter}" for counter = 1, 2, ...
SlugCandidate(base_slug, counter) ==
    IF counter = 0 THEN base_slug ELSE base_slug \o "-" \o ToString(counter)

\* the while loop of Article.save
RECURSIVE SlugLoop(_, _)
SlugLoop(base_slug, counter) ==
    IF SlugExists(SlugCandidate(base_slug, counter))
    THEN SlugLoop(base_slug, counter + 1)
    ELSE SlugCandidate(base_slug, counter)

\* Article.save before super().save: if not self.slug, assign one
AssignSlug(row) ==
    IF row.slug = ""
    THEN [row EXCEPT !.slug = SlugLoop(slugify(row.title), 0)]
    ELSE row

\* mutant: the slug column carries no unique index
SlugIntegrityError_none(slug) == FALSE

\* slug = SlugField(unique=True): the INSERT raises IntegrityError
SlugIntegrityError(slug) == SlugExists(slug)

\* validate_title of ArticleCreateUpdateSerializer
ValidTitle(title) == Len(title) >= 10

\* get_object of the article views over queryset
ArticleBySlug(slug, queryset) ==
    LET m == {a \in queryset : articles[a].slug = slug}
    IN IF m = {} THEN 0 ELSE CHOOSE a \in m : TRUE

\* the slugs a URL of the model can carry
UrlSlugs == ({articles[a].slug : a \in ArticleIds} \ {""}) \cup MissingSlugs

PendingArticles ==
    Cardinality({w \in Workers : newsReq[w].op = "article_create"
                                    /\ newsReq[w].pc # "done"})

\* ------------------------------------- POST /api/news/articles/create/
\* ArticleCreateView.create: validation, then Article.objects.create, whose
\* save assigns the slug before the INSERT
ArticleCreateBegin(w) ==
    /\ NewsIdle(w)
    /\ Len(articles) + PendingArticles < MaxArticles
    /\ \E u \in AuthenticatedUsers, title \in Titles \cup ShortTitles :
        LET row == [title |-> title, slug |-> "", author |-> u,
                    status |-> "published", views_count |-> 0]
        IN IF ~ValidTitle(title)
           THEN NewsFinish(w, NewsResponse("article_create", 400, u, 0))
           ELSE NewsContinue(w, [IdleNewsReq EXCEPT !.op = "article_create",
                                    !.pc = "insert", !.user = u,
                                    !.row = <<AssignSlug(row)>>])
    /\ UNCHANGED <<accountVars, articles, likes, bookmarks>>

\* super().save: the INSERT; IntegrityError is caught by except Exception
ArticleCreateInsert(w) ==
    /\ NewsAt(w, "article_create", "insert")
    /\ LET row == newsReq[w].row[1]
       IN IF SlugIntegrityError(row.slug)
          THEN /\ NewsFinish(w, NewsResponse("article_create", 500, newsReq[w].user, 0))
               /\ UNCHANGED articles
          ELSE /\ articles' = Append(articles, row)
               /\ NewsFinish(w, [NewsResponse("article_create", 201, newsReq[w].user,
                                              Len(articles) + 1)
                                    EXCEPT !.slug = row.slug])
    /\ UNCHANGED <<accountVars, likes, bookmarks>>

\* --------------------------- PATCH /api/news/articles/{slug}/update/
\* ArticleUpdateView.update: get_object over the requester's articles, then
\* the serializer sets the attributes on the loaded instance
ArticleUpdateBegin(w) ==
    /\ NewsIdle(w)
    /\ \E u \in AuthenticatedUsers, slug \in UrlSlugs,
            title \in UpdateTitles \cup ShortTitles :
        LET a == ArticleBySlug(slug, {b \in ArticleIds : articles[b].author = u})
        IN IF a = 0
           THEN NewsFinish(w, NewsResponse("article_update", 404, u, 0))
           ELSE IF ~ValidTitle(title)
           THEN NewsFinish(w, NewsResponse("article_update", 400, u, a))
           ELSE NewsContinue(w, [IdleNewsReq EXCEPT !.op = "article_update",
                                    !.pc = "save", !.user = u, !.article = a,
                                    !.row = <<[articles[a] EXCEPT !.title = title]>>])
    /\ UNCHANGED <<accountVars, articles, likes, bookmarks>>

\* instance.save(): Article.save, an UPDATE of every column of the row
ArticleUpdateSave(w) ==
    /\ NewsAt(w, "article_update", "save")
    /\ LET row == AssignSlug(newsReq[w].row[1])
           a == newsReq[w].article
       IN /\ articles' = [articles EXCEPT ![a] = row]
          /\ NewsFinish(w, [NewsResponse("article_update", 200, newsReq[w].user, a)
                                EXCEPT !.slug = row.slug])
    /\ UNCHANGED <<accountVars, likes, bookmarks>>

\* ----------------------------------- GET /api/news/articles/{slug}/
\* ArticleDetailView.retrieve, requested without cookies: get_object
ArticleDetailBegin(w) ==
    /\ NewsIdle(w)
    /\ \E slug \in UrlSlugs :
        LET a == ArticleBySlug(slug, ArticleIds)
        IN IF a = 0
           THEN NewsFinish(w, NewsResponse("article_detail", 404, 0, 0))
           ELSE /\ articles[a].views_count < MaxViews
                /\ NewsContinue(w, [IdleNewsReq EXCEPT !.op = "article_detail",
                                      !.pc = "increment_views", !.article = a,
                                      !.row = <<articles[a]>>])
    /\ UNCHANGED <<accountVars, articles, likes, bookmarks>>

\* Article.increment_views: self.views_count += 1, then
\* save(update_fields=['views_count']) writes that column of the row
increment_views(a, instance) ==
    [articles EXCEPT ![a].views_count = instance.views_count + 1]

\* instance.increment_views(), then the serialized instance is returned
ArticleDetailIncrement(w) ==
    /\ NewsAt(w, "article_detail", "increment_views")
    /\ LET a == newsReq[w].article
           instance == AssignSlug(newsReq[w].row[1])
       IN /\ articles' = increment_views(a, instance)
          /\ NewsFinish(w, [NewsResponse("article_detail", 200, 0, a)
                                EXCEPT !.slug = instance.slug,
                                       !.views_count = instance.views_count + 1])
    /\ UNCHANGED <<accountVars, likes, bookmarks>>

\* one account may write; there is no article yet
ArticleInit ==
    /\ NewsAccounts(FALSE)
    /\ NoNews

ArticleNext ==
    \/ \E w \in Workers : ArticleCreateBegin(w)
    \/ \E w \in Workers : ArticleCreateInsert(w)
    \/ \E w \in Workers : ArticleUpdateBegin(w)
    \/ \E w \in Workers : ArticleUpdateSave(w)
    \/ \E w \in Workers : ArticleDetailBegin(w)
    \/ \E w \in Workers : ArticleDetailIncrement(w)

ArticleSpec == ArticleInit /\ [][ArticleNext]_vars

\* ------------------------- POST /api/news/articles/{slug}/like/, bookmark/
\* the table an endpoint toggles
Marks(op) == IF op = "toggle_like" THEN likes ELSE bookmarks

SetMarks(op, m) ==
    IF op = "toggle_like"
    THEN likes' = m /\ UNCHANGED bookmarks
    ELSE bookmarks' = m /\ UNCHANGED likes

\* the rows of (article, user)
MarksOf(op, a, u) == {m \in Marks(op) : m.article = a /\ m.user = u}

MarkIds == 1..(2 * MaxUsers + 2)

\* id = UUIDField(default=uuid.uuid4): a value no row and no handler holds
FreshMark(op) ==
    CHOOSE i \in MarkIds :
        /\ \A m \in Marks(op) : m.id # i
        /\ \A w \in Workers : ~(newsReq[w].op = op /\ newsReq[w].mark = i)
        /\ \A j \in MarkIds :
            j < i => \/ \E m \in Marks(op) : m.id = j
                     \/ \E w \in Workers : newsReq[w].op = op /\ newsReq[w].mark = j

\* mutant: the table carries no unique_together constraint
MarkIntegrityError_none(op, a, u) == FALSE

\* unique_together = ['article', 'user']: the INSERT raises IntegrityError
MarkIntegrityError(op, a, u) == MarksOf(op, a, u) # {}

\* article.likes.count()
likes_count(a) == Cardinality({m \in likes : m.article = a})

\* the 201 / 200 of the view; toggle_like counts the likes for it
ToggleResponse(op, u, a, created) ==
    [NewsResponse(op, IF created THEN 201 ELSE 200, u, a)
        EXCEPT !.flag = created,
               !.likes_count = IF op = "toggle_like" THEN likes_count(a) ELSE 0]

\* get_object_or_404(Article, slug=slug, status='published')
ToggleBegin(w, op) ==
    /\ NewsIdle(w)
    /\ \E u \in AuthenticatedUsers, slug \in UrlSlugs :
        LET a == ArticleBySlug(slug, {b \in ArticleIds : articles[b].status = "published"})
        IN IF a = 0
           THEN NewsFinish(w, NewsResponse(op, 404, u, 0))
           ELSE NewsContinue(w, [IdleNewsReq EXCEPT !.op = op, !.pc = "get",
                                    !.user = u, !.article = a])
    /\ UNCHANGED <<accountVars, articles, likes, bookmarks>>

\* get_or_create: self.get(article=article, user=request.user)
ToggleGet(w, op) ==
    /\ NewsAt(w, op, "get")
    /\ LET m == MarksOf(op, newsReq[w].article, newsReq[w].user)
       IN IF m = {}
          THEN NewsContinue(w, [newsReq[w] EXCEPT !.pc = "create"])
          ELSE IF Cardinality(m) > 1
          THEN NewsFinish(w, NewsResponse(op, 500, newsReq[w].user, newsReq[w].article))
          ELSE \E row \in m :
                NewsContinue(w, [newsReq[w] EXCEPT !.pc = "delete", !.mark = row.id])
    /\ UNCHANGED <<accountVars, articles, likes, bookmarks>>

\* get_or_create: self.create(...) in a savepoint; created = True; the like
\* view goes on to count, the bookmark view returns its 201
ToggleCreate(w, op) ==
    /\ NewsAt(w, op, "create")
    /\ LET a == newsReq[w].article
           u == newsReq[w].user
       IN IF MarkIntegrityError(op, a, u)
          THEN /\ NewsContinue(w, [newsReq[w] EXCEPT !.pc = "get_again"])
               /\ UNCHANGED <<likes, bookmarks>>
          ELSE /\ SetMarks(op, Marks(op) \cup {[id |-> FreshMark(op), article |-> a,
                                                 user |-> u]})
               /\ IF op = "toggle_like"
                  THEN NewsContinue(w, [newsReq[w] EXCEPT !.pc = "count",
                                            !.created = TRUE])
                  ELSE NewsFinish(w, ToggleResponse(op, u, a, TRUE))
    /\ UNCHANGED <<accountVars, articles>>

\* get_or_create after IntegrityError: self.get again; DoesNotExist re-raises
\* the IntegrityError, which the view's except Exception turns into the 500
ToggleGetAgain(w, op) ==
    /\ NewsAt(w, op, "get_again")
    /\ LET m == MarksOf(op, newsReq[w].article, newsReq[w].user)
       IN IF m = {}
          THEN NewsFinish(w, NewsResponse(op, 500, newsReq[w].user, newsReq[w].article))
          ELSE \E row \in m :
                NewsContinue(w, [newsReq[w] EXCEPT !.pc = "delete", !.mark = row.id])
    /\ UNCHANGED <<accountVars, articles, likes, bookmarks>>

\* like.delete() / bookmark.delete(): DELETE by primary key
ToggleDelete(w, op) ==
    /\ NewsAt(w, op, "delete")
    /\ SetMarks(op, {m \in Marks(op) : m.id # newsReq[w].mark})
    /\ IF op = "toggle_like"
       THEN NewsContinue(w, [newsReq[w] EXCEPT !.pc = "count", !.mark = 0])
       ELSE NewsFinish(w, ToggleResponse(op, newsReq[w].user, newsReq[w].article, FALSE))
    /\ UNCHANGED <<accountVars, articles>>

\* toggle_like: article.likes.count() for the response
ToggleLikeCount(w) ==
    /\ NewsAt(w, "toggle_like", "count")
    /\ NewsFinish(w, ToggleResponse("toggle_like", newsReq[w].user, newsReq[w].article,
                                    newsReq[w].created))
    /\ UNCHANGED <<accountVars, articles, likes, bookmarks>>

ToggleLikeBegin(w) == ToggleBegin(w, "toggle_like")
ToggleLikeGet(w) == ToggleGet(w, "toggle_like")
ToggleLikeCreate(w) == ToggleCreate(w, "toggle_like")
ToggleLikeGetAgain(w) == ToggleGetAgain(w, "toggle_like")
ToggleLikeDelete(w) == ToggleDelete(w, "toggle_like")
ToggleBookmarkBegin(w) == ToggleBegin(w, "toggle_bookmark")
ToggleBookmarkGet(w) == ToggleGet(w, "toggle_bookmark")
ToggleBookmarkCreate(w) == ToggleCreate(w, "toggle_bookmark")
ToggleBookmarkGetAgain(w) == ToggleGetAgain(w, "toggle_bookmark")
ToggleBookmarkDelete(w) == ToggleDelete(w, "toggle_bookmark")

\* two accounts may toggle; a published article and a draft exist
ToggleInit ==
    /\ NewsAccounts(TRUE)
    /\ articles = <<[title |-> "Hello World", slug |-> "hello-world",
                     author |-> 1, status |-> "published", views_count |-> 0],
                    [title |-> "Hello World 1", slug |-> "hello-world-1",
                     author |-> 2, status |-> "draft", views_count |-> 0]>>
    /\ likes = {}
    /\ bookmarks = {}
    /\ newsReq = [w \in Workers |-> IdleNewsReq]
    /\ newsOut = NoNewsResponse

ToggleNext ==
    \/ \E w \in Workers : ToggleLikeBegin(w)
    \/ \E w \in Workers : ToggleLikeGet(w)
    \/ \E w \in Workers : ToggleLikeCreate(w)
    \/ \E w \in Workers : ToggleLikeGetAgain(w)
    \/ \E w \in Workers : ToggleLikeDelete(w)
    \/ \E w \in Workers : ToggleLikeCount(w)
    \/ \E w \in Workers : ToggleBookmarkBegin(w)
    \/ \E w \in Workers : ToggleBookmarkGet(w)
    \/ \E w \in Workers : ToggleBookmarkCreate(w)
    \/ \E w \in Workers : ToggleBookmarkGetAgain(w)
    \/ \E w \in Workers : ToggleBookmarkDelete(w)

ToggleSpec == ToggleInit /\ [][ToggleNext]_vars

\* =================================================================== claims
\* what the specification calls a valid token: a row with the presented
\* value exists, is unused, and the clock is strictly before its expiry
LiveToken(table, value) ==
    \E i \in 1..Len(table) :
        /\ table[i].token = value
        /\ table[i].is_used = FALSE
        /\ now < table[i].expires_at

TokenErrors(kind) ==
    {TokenErrorMessage(kind, e) : e \in {"invalid", "used", "expired"}}

ResetSuccessMessage ==
    "If an account exists with this email, you will receive a password reset link."

\* worker w has just taken up a request of endpoint op and its validation
\* passed: the handler goes on to its first write
Accepted(w, op) == req[w].pc = "done" /\ req'[w].op = op

\* a request of endpoint op was answered by its validation step
AnsweredAtOnce(op) == out'.op = op /\ req' = req

\* C1: a password reset token is single-use: one token value changes its
\* user's password at most once over any sequence of confirm requests.
C1_ResetTokenSingleUse == \A t \in TokenValues : pwChangedBy[t] <= 1

\* C2: a confirm with a valid token and two matching acceptable passwords
\* answers 200 and leaves the new password stored, the token used and no
\* unused reset token of that user.
C2_ConfirmSucceeds ==
    [][\A w \in Workers :
        (req[w].op = "reset_confirm" /\ req[w].pc = "set_password"
            /\ req'[w].pc = "done")
        => /\ out'.status = 200
           /\ users'[req[w].user].password = make_password(req[w].password)
           /\ prTokens'[req[w].tok].is_used
           /\ UnusedTokens(prTokens', req[w].user) = {}]_vars

\* C3: verify-email and password-reset confirm reject the presented token
\* exactly when no unused, unexpired token with that value exists, and a
\* rejected request answers 400 and changes no user and no token.
C3_AcceptedIffLive ==
    [][/\ \A w \in Workers :
            /\ Accepted(w, "verify_email") => LiveToken(evTokens, req'[w].token)
            /\ Accepted(w, "reset_confirm") => LiveToken(prTokens, req'[w].token)
       /\ AnsweredAtOnce("verify_email") =>
            /\ ~LiveToken(evTokens, out'.token)
            /\ out'.status = 400
            /\ out'.message \in TokenErrors("verification")
            /\ UNCHANGED <<users, evTokens, prTokens>>
       /\ AnsweredAtOnce("reset_confirm") =>
            /\ (out'.message \in TokenErrors("reset"))
                    <=> ~LiveToken(prTokens, out'.token)
            /\ out'.status = 400
            /\ UNCHANGED <<users, evTokens, prTokens>>]_vars

\* a verify-email or confirm has just rejected a token while live tokens exist
C3_Witness ==
    /\ out.op = "verify_email"
    /\ out.status = 400
    /\ out.message = TokenErrorMessage("verification", "expired")
    /\ \E i \in 1..Len(evTokens) :
            evTokens[i].token = out.token /\ now = evTokens[i].expires_at

\* C4: once verify-email has answered 200 for token T, every later
\* verify-email presenting T answers 400 with the already-used error.
C4_SecondRedeemAlreadyUsed ==
    [][/\ \A w \in Workers :
            Accepted(w, "verify_email") => req'[w].token \notin verifyOk
       /\ (AnsweredAtOnce("verify_email") /\ out'.token \in verifyOk) =>
            /\ out'.status = 400
            /\ out'.message = "This verification link has already been used."]_vars

\* the only verification token was redeemed and presented again
C4_Witness ==
    /\ out.token \in verifyOk
    /\ out.op = "verify_email"
    /\ out.status = 400
    /\ out.message = "This verification link has already been used."

\* C5: when resend-verification or a password-reset request has issued a
\* token, every token of that kind of that user that was unused when the
\* call started is used, and presenting it is rejected as already used.
C5_IssueSupersedes ==
    [][\A w \in Workers :
        (req[w].pc = "create_token" /\ req'[w].pc = "done"
            /\ req[w].op \in {"resend", "reset_request"})
        => LET table == IF req[w].op = "resend" THEN evTokens' ELSE prTokens'
           IN /\ out'.status = 200
              /\ \A i \in req[w].pre :
                    /\ table[i].is_used
                    /\ validate_token(table, table[i].token) = "used"]_vars

\* a resend superseded a verification token
C5_WitnessResend ==
    /\ out.op = "resend"
    /\ out.status = 200
    /\ Len(evTokens) = 2
    /\ evTokens[1].user = evTokens[2].user
    /\ evTokens[1].is_used
    /\ ~evTokens[2].is_used

\* C6: every user has at most one live token of each kind in every
\* reachable state, concurrent requests included.
C6_OneLiveTokenPerKind ==
    \A u \in UserIds :
        /\ Cardinality({i \in 1..Len(evTokens) : evTokens[i].user = u
                /\ LiveToken(evTokens, evTokens[i].token)}) <= 1
        /\ Cardinality({i \in 1..Len(prTokens) : prTokens[i].user = u
                /\ LiveToken(prTokens, prTokens[i].token)}) <= 1

\* C7: login never answers 200 and never sets the credential cookies for a
\* user that is neither email-verified nor a superuser.
C7_UnverifiedNeverLogsIn ==
    \A u \in UserIds :
        (~users[u].email_verified /\ ~users[u].is_superuser)
        => ~(out.op = "login" /\ \E c \in out.cookies : c.user = u)

\* C8: login with the correct password for an unverified account fails with
\* the verification-required message.
C8_UnverifiedLoginMessage ==
    [][out'.op = "login" =>
        \A e \in Emails, p \in Passwords :
            (/\ out' = LoginResponse(e, p)
             /\ \E u \in UsersExact(e) :
                    ~users[u].email_verified /\ check_password(users[u], p))
            => /\ out'.status # 200
               /\ out'.message = "Please verify your email before logging in. Check your inbox for the verification link."]_vars

\* C9: a login with a wrong password for a verified account and a login
\* with an email that has no account get the same response: 401, the generic
\* message, no cookie.
C9_LoginIndistinguishable ==
    [][out'.op = "login" =>
        \A e \in Emails, p \in Passwords :
            (/\ out' = LoginResponse(e, p)
             /\ \/ UsersIexact(e) = {}
                \/ \E u \in UsersExact(e) :
                        users[u].email_verified /\ ~check_password(users[u], p))
            => /\ out'.status = 401
               /\ out'.message = "Invalid email or password."
               /\ out'.cookies = {}]_vars

\* a login failed while a verified account and a free email both exist
C9_Witness ==
    /\ out.op = "login"
    /\ out.status = 401
    /\ \E u \in UserIds : users[u].email_verified
    /\ \E e \in Emails : UsersIexact(e) = {}

\* C10: a password-reset request always answers 200 with the same message,
\* whatever account the email belongs to or not.
C10_ResetRequestUniform ==
    out.op = "reset_request" =>
        out.status = 200 /\ out.message = ResetSuccessMessage

\* two emails are the same ignoring letter case
EqualIgnoringCase(a, b) == Lower(a) = Lower(b)

\* the verified accounts a request naming email e is about
VerifiedAccounts(e) ==
    {i \in UserIds : EqualIgnoringCase(users[i].email, e) /\ users[i].email_verified}

C12_ConfirmExpiredOrUsed ==
    [][/\ AnsweredAtOnce("reset_confirm") =>
            \A i \in 1..Len(prTokens) :
                prTokens[i].token = out'.token =>
                    /\ prTokens[i].is_used =>
                            /\ out'.status = 400
                            /\ out'.message = "This reset link has already been used."
                    /\ (~prTokens[i].is_used /\ now >= prTokens[i].expires_at) =>
                            /\ out'.status = 400
                            /\ out'.message =
                                "This reset link has expired. Please request a new one."
                    /\ (prTokens[i].is_used \/ now >= prTokens[i].expires_at) =>
                            UNCHANGED <<users, evTokens, prTokens>>
       /\ \A w \in Workers :
            Accepted(w, "reset_confirm") =>
                \A i \in 1..Len(prTokens) :
                    prTokens[i].token = req'[w].token =>
                        ~prTokens[i].is_used /\ now < prTokens[i].expires_at]_vars

\* a confirm presented a token that is both used and past its expiry
C12_Witness ==
    /\ out.op = "reset_confirm"
    /\ out.status = 400
    /\ out.message = "This reset link has already been used."
    /\ \E i \in 1..Len(prTokens) :
            /\ prTokens[i].token = out.token
            /\ prTokens[i].is_used
            /\ now >= prTokens[i].expires_at

\* C13: while a user whose email equals E ignoring case is stored, every
\* registration naming E is answered 400 with the duplicate-email error and
\* creates no user and no verification token.
C13_DuplicateEmailRejected ==
    [][\A w \in Workers :
        (req[w].pc = "done" /\ (out'.op = "register" \/ req'[w].op = "register"))
        => \A e \in {d \in Emails :
                        \E i \in UserIds : EqualIgnoringCase(users[i].email, d)} :
            \A p \in RegisterPasswords, p2 \in Confirmations :
                \/ /\ out'.op = "register"
                   /\ out'.status = 400
                   /\ out'.message = "A user with this email already exists."
                   /\ req' = req
                   /\ UNCHANGED <<users, evTokens>>
                \/ ~RegisterRequest(w, e, p, p2)]_vars

\* a registration was rejected as a duplicate of a registered account
C13_Witness ==
    /\ out.op = "register"
    /\ out.status = 400
    /\ out.message = "A user with this email already exists."
    /\ \E i \in UserIds : ~users[i].is_superuser
    /\ evTokens # <<>>

C20_RegistrationOutcome ==
    [][\A w \in Workers :
        (req[w].op = "register" /\ req[w].pc = "create_token"
            /\ req'[w].pc = "done")
        => /\ out'.status = 201
           /\ out'.mail \in {"sent", "failed"}
           /\ req[w].user \in 1..Len(users')
           /\ ~users'[req[w].user].email_verified
           /\ Cardinality({i \in 1..Len(evTokens') :
                    /\ evTokens'[i].user = req[w].user
                    /\ ~evTokens'[i].is_used
                    /\ now' < evTokens'[i].expires_at}) = 1]_vars

\* ------------------------------------------------------ session claims
\* the refresh credentials handed out so far whose expiry has passed
ExpiredRefreshCredentials ==
    {c \in IssuedCredentials("refresh") : now >= c.exp}

SessionExpiredMessage == "Session expired. Please log in again."

\* C15: a refresh presenting a malformed or an expired refresh credential
\* answers 401, sets no credential cookie and clears both cookies.
C15_RefreshRejectsBadCredential ==
    [][out'.op = "refresh" =>
        \A c \in {Malformed} \cup ExpiredRefreshCredentials :
            out' = RefreshResponse(c)
            => /\ out'.status = 401
               /\ \A k \in out'.cookies : k.user = 0 /\ k.max_age = 0
               /\ DeletedCookie("access_token") \in out'.cookies
               /\ DeletedCookie("refresh_token") \in out'.cookies]_vars

\* a refresh presented a credential whose expiry had passed
C15_Witness ==
    /\ out.op = "refresh"
    /\ out.status = 401
    /\ out.cookies = ClearedCookies
    /\ ExpiredRefreshCredentials # {}

\* C16: every refresh that does not succeed, the one without a refresh_token
\* cookie included, clears both cookies and reports the expired session.
C16_RefreshFailClosed ==
    (out.op = "refresh" /\ out.status # 200)
    => /\ out.cookies = ClearedCookies
       /\ out.message = SessionExpiredMessage

\* C17: a successful refresh sets the access_token cookie and nothing else,
\* writes nothing, and a refresh credential is accepted at every instant
\* before its expiry, however often it has been used.
C17_RefreshNoRotation ==
    [][/\ (out'.op = "refresh" /\ out'.status = 200) =>
            /\ \E u \in UserIds :
                    out'.cookies = {Cookie("access_token", u, AccessMaxAge)}
            /\ \A k \in out'.cookies : k.name # "refresh_token"
            /\ UNCHANGED <<users, evTokens, prTokens, req>>
       /\ \A c \in IssuedCredentials("refresh") :
            now' < c.exp =>
                /\ RefreshResponse(c)'.status = 200
                /\ \A k \in RefreshResponse(c)'.cookies : k.name # "refresh_token"]_vars

\* a refresh succeeded for the registered account while an older refresh
\* credential of that account had already expired
C17_Witness ==
    /\ out.op = "refresh"
    /\ out.status = 200
    /\ Cookie("access_token", 2, AccessMaxAge) \in out.cookies
    /\ ExpiredRefreshCredentials # {}

\* a logout, the write of a change-password or the write of a reset confirm
StepOf(w, op, pc) ==
    req[w].op = op /\ req[w].pc = pc /\ req'[w].pc = "done"

\* C18: logout, change-password and password-reset confirm leave every
\* credential as valid as it was: what refresh and the cookie authentication
\* answer to a credential is the same after the step as before it, and
\* logout writes nothing and only clears the two cookies.
C18_CredentialsStateless ==
    [][/\ (\/ out'.op = "logout"
           \/ \E w \in Workers :
                \/ StepOf(w, "change_password", "save")
                \/ StepOf(w, "reset_confirm", "set_password"))
          => \A c \in IssuedCredentials("refresh") \cup IssuedCredentials("access") :
                /\ ValidCredential(c, c.kind)' = ValidCredential(c, c.kind)
                /\ RefreshResponse(c)' = RefreshResponse(c)
                /\ CookieAuthenticate(c)' = CookieAuthenticate(c)
       /\ out'.op = "logout" =>
            /\ out'.status = 200
            /\ out'.cookies = ClearedCookies
            /\ UNCHANGED <<users, evTokens, prTokens, req>>]_vars

\* a password was changed and a refresh credential of that user, issued
\* under the old password, is still accepted
C18_Witness ==
    /\ out.op = "change_password"
    /\ out.status = 200
    /\ \E c \in IssuedCredentials("refresh") :
            /\ users[c.user].password # make_password("pass1234")
            /\ RefreshResponse(c).status = 200

\* C19: an authenticated change-password whose old_password does not match
\* the stored password, or whose two new passwords differ, answers 400 and
\* writes nothing; one that goes on to write had a matching old_password,
\* and its write stores the new password for the requesting user and
\* changes nothing else.
C19_ChangePassword ==
    [][/\ \A w \in Workers :
            (req[w].pc = "done"
                /\ (out'.op = "change_password" \/ req'[w].op = "change_password"))
            => \A c \in {d \in IssuedCredentials("access") :
                            CookieAuthenticate(d)[1] # 0} :
                \A old \in Confirmations, new \in Passwords, new2 \in Confirmations :
                    ChangePasswordRequest(w, c, old, new, new2)
                    => /\ (~check_password(users[c.user], old) \/ new # new2) =>
                            /\ out'.status = 400
                            /\ req' = req
                            /\ UNCHANGED users
                       /\ req'[w].op = "change_password" =>
                            /\ check_password(users[c.user], old)
                            /\ req'[w].user = c.user
                            /\ req'[w].password = new
       /\ \A w \in Workers :
            StepOf(w, "change_password", "save") =>
                /\ out'.status = 200
                /\ users' = [users EXCEPT ![req[w].user].password =
                                make_password(req[w].password)]]_vars

\* a change-password was refused because the old password did not match
C19_Witness ==
    /\ out.op = "change_password"
    /\ out.status = 400
    /\ out.message = "Current password is incorrect."

\* C21: every login request appends exactly one LoginAttempt row with the
\* submitted email and successful = (the answer is 200), and no step
\* changes or removes a stored row.
C21_LoginAttemptLogged ==
    [][/\ out'.op = "login" =>
            \E e \in Emails, p \in Passwords :
                /\ out' = LoginResponse(e, p)
                /\ loginAttempts' = Append(loginAttempts,
                        [email |-> e, successful |-> (out'.status = 200)])
       /\ Len(loginAttempts') >= Len(loginAttempts)
       /\ \A i \in 1..Len(loginAttempts) : loginAttempts'[i] = loginAttempts[i]]_vars

C23_NoDoubleSpend ==
    [][\A w \in Workers :
        /\ StepOf(w, "verify_email", "mark_used") =>
                (out'.status = 200 => req[w].token \notin verifyOk)
        /\ StepOf(w, "reset_confirm", "set_password") =>
                (users' # users => pwChangedBy[req[w].token] = 0)]_vars

\* C24: when a verify-email or a password-reset confirm request finishes,
\* with whatever answer, the dependent change is applied only together
\* with the consumption of the token: the user is verified (the password is
\* the submitted one) only if the redeemed token is used.
C24_AtomicWithConsumption ==
    [][\A w \in Workers :
        /\ StepOf(w, "verify_email", "mark_used") =>
                (users'[req[w].user].email_verified
                    => evTokens'[req[w].tok].is_used)
        /\ StepOf(w, "reset_confirm", "set_password") =>
                (users'[req[w].user].password = make_password(req[w].password)
                    => prTokens'[req[w].tok].is_used)]_vars

\* C25: no step removes a token row, changes its value, owner or expiry,
\* or turns its used flag from TRUE to FALSE; a token that is not valid is
\* not valid after the step either.
C25_ConsumptionOneWay ==
    [][/\ Len(evTokens') >= Len(evTokens)
       /\ Len(prTokens') >= Len(prTokens)
       /\ \A i \in 1..Len(evTokens) :
            /\ evTokens'[i].token = evTokens[i].token
            /\ evTokens'[i].user = evTokens[i].user
            /\ evTokens'[i].expires_at = evTokens[i].expires_at
            /\ evTokens[i].is_used => evTokens'[i].is_used
            /\ ~is_valid(evTokens[i]) => ~(is_valid(evTokens[i]))'
       /\ \A i \in 1..Len(prTokens) :
            /\ prTokens'[i].token = prTokens[i].token
            /\ prTokens'[i].user = prTokens[i].user
            /\ prTokens'[i].expires_at = prTokens[i].expires_at
            /\ prTokens[i].is_used => prTokens'[i].is_used
            /\ ~is_valid(prTokens[i]) => ~(is_valid(prTokens[i]))']_vars

\* a used verification token was presented again after its expiry
C25_Witness ==
    /\ out.op = "verify_email"
    /\ out.status = 400
    /\ \E i \in 1..Len(evTokens) :
            /\ evTokens[i].token = out.token
            /\ evTokens[i].is_used
            /\ now >= evTokens[i].expires_at

C27_CookieAuthentication ==
    [][/\ \A c \in {NoCookie, Malformed} \cup IssuedCredentials("access")
                    \cup IssuedCredentials("refresh") :
            LET a == CookieJWTAuthentication(c)
            IN /\ a.user # 0 =>
                    /\ c.kind = "access"
                    /\ now < c.exp
                    /\ c.user = a.user
                    /\ users[a.user].is_active
                    /\ users[a.user].email_verified \/ users[a.user].is_superuser
               /\ c = NoCookie => a = Anonymous
               /\ (/\ c.kind = "access"
                   /\ now < c.exp
                   /\ \/ ~users[c.user].is_active
                      \/ ~users[c.user].email_verified /\ ~users[c.user].is_superuser)
                    => a.user = 0 /\ a.error # ""
       /\ \A w \in Workers :
            (/\ req[w].pc = "done"
             /\ req'[w].pc # "done"
             /\ req'[w].op \in {"change_password", "profile_patch"})
                => /\ users[req'[w].user].is_active
                   /\ \/ users[req'[w].user].email_verified
                      \/ users[req'[w].user].is_superuser
       /\ (out'.op \in {"change_password", "profile_patch"} /\ out'.status = 401
            /\ out.op = "none")
            => \E c \in {NoCookie, Malformed} \cup IssuedCredentials("access") :
                    /\ CookieJWTAuthentication(c).user = 0
                    /\ out'.message = CookieAuthenticate(c)[2]]_vars

\* a request with an unexpired access credential of an account that is
\* not verified was answered with the authentication failure
C27_Witness ==
    /\ out.op = "profile_patch"
    /\ out.status = 401
    /\ out.message = "Email not verified."
    /\ \E c \in IssuedCredentials("access") :
            /\ now < c.exp
            /\ ~users[c.user].email_verified
            /\ users[c.user].is_active

ToggleOps == {"toggle_like", "toggle_bookmark"}

\* C28: there is at most one Like and one Bookmark per (article, user) in
\* every state; a toggle request by U on a published article ends in 201
\* with flag true or in 200 with flag false; it decides to create exactly
\* when U has no row for the article; a write to the table is the
\* requester's own row, created when there was none or deleted when there
\* was one, so that two toggles in a row restore the table; and the
\* likes_count returned is the number of likes of the article.
C28_ToggleInvolution ==
    [][/\ \A op \in ToggleOps : \A a \in ArticleIds, u \in UserIds :
            Cardinality(MarksOf(op, a, u)') <= 1
       /\ (newsOut'.op \in ToggleOps /\ newsOut'.status # 404) =>
            /\ newsOut'.status \in {200, 201}
            /\ newsOut'.flag = (newsOut'.status = 201)
            /\ newsOut'.op = "toggle_like" =>
                    \A a \in ArticleIds :
                        newsOut'.article = a =>
                            newsOut'.likes_count = likes_count(a)'
       /\ \A w \in Workers :
            (newsReq[w].op \in ToggleOps /\ newsReq[w].pc = "get"
                /\ newsReq'[w] # newsReq[w])
            => (newsReq'[w].pc = "create"
                    <=> MarksOf(newsReq[w].op, newsReq[w].article, newsReq[w].user) = {})
       /\ \A op \in ToggleOps :
            Marks(op)' # Marks(op) =>
                \E w \in Workers, a \in ArticleIds, u \in UserIds :
                       /\ a = newsReq[w].article
                       /\ u = newsReq[w].user
                       /\ newsReq[w].op = op
                       /\ newsReq'[w] # newsReq[w]
                       /\ \A m \in Marks(op) \cup Marks(op)' :
                            (m.article # a \/ m.user # u) =>
                                (m \in Marks(op) /\ m \in Marks(op)')
                       /\ \/ /\ newsReq[w].pc = "create"
                             /\ MarksOf(op, a, u) = {}
                             /\ Cardinality(MarksOf(op, a, u)') = 1
                          \/ /\ newsReq[w].pc = "delete"
                             /\ Cardinality(MarksOf(op, a, u)) = 1
                             /\ MarksOf(op, a, u)' = {}]_vars

\* C29: an inserted article gets the slugified title when no article uses
\* it, otherwise the first of base-1, base-2, ... that no article uses; in
\* every state, also after concurrent creations with one title, the slugs
\* of the articles are pairwise distinct; and no step, a later save
\* included, changes or removes the slug of an existing article.
C29_SlugDeduplication ==
    [][/\ \A a \in 1..Len(articles'), b \in 1..Len(articles') :
            a # b => articles'[a].slug # articles'[b].slug
       /\ Len(articles') >= Len(articles)
       /\ \A a \in ArticleIds : articles'[a].slug = articles[a].slug
       /\ Len(articles') > Len(articles) =>
            /\ Len(articles') = Len(articles) + 1
            /\ \E n \in 0..Len(articles) :
                LET new == articles'[Len(articles')]
                    base_slug == slugify(new.title)
                IN /\ new.slug = SlugCandidate(base_slug, n)
                   /\ ~SlugExists(new.slug)
                   /\ \A k \in 0..(n - 1) : SlugExists(SlugCandidate(base_slug, k))
                   /\ newsOut'.status = 201
                   /\ newsOut'.slug = new.slug
       /\ (newsOut'.op \in {"article_update", "article_detail"}
                /\ newsOut'.status = 200)
            => \E a \in ArticleIds :
                    /\ newsOut'.article = a
                    /\ newsOut'.slug = articles[a].slug]_vars

\* an article was renamed and read and kept its slug, and a second article
\* with the title the first was created under got the suffixed slug
C29_Witness ==
    /\ newsOut.op = "article_create"
    /\ newsOut.status = 201
    /\ newsOut.slug = "hello-world-1"
    /\ \E a \in ArticleIds, b \in ArticleIds :
            /\ articles[a].slug = "hello-world"
            /\ articles[a].title = "hello world!"
            /\ articles[a].views_count = 1
            /\ articles[b].slug = "hello-world-1"
            /\ articles[b].title = "Hello World"

\* C30: a detail retrieval that answers 200 raises the views_count of its
\* article by exactly one and changes no other field and no other article.
C30_ViewsCountExact ==
    [][(newsOut'.op = "article_detail" /\ newsOut'.status = 200) =>
            \E a \in ArticleIds :
                /\ newsOut'.article = a
                /\ articles' = [articles EXCEPT ![a].views_count = @ + 1]]_vars
====
